---- MODULE Spec2Model ----
(***************************************************************************)
(* Model of src/src/option_valuation.py: the option valuation pipeline     *)
(* (years to maturity, per-ticker historical volatility, treasury yield    *)
(* curve, Black-Scholes price, report).                                    *)
(*                                                                         *)
(* Numbers.  Python floats are IEEE-754 binary64.  Where the outcome of a  *)
(* computation depends on the rounding of binary64 (the division by 365    *)
(* and the sum in calculate_years_to_maturity) the arithmetic is carried   *)
(* out on 53-bit significands, bit by bit.  Percentages that the code      *)
(* rounds to two decimals are carried as integers in hundredths.           *)
(***************************************************************************)
EXTENDS Integers, Sequences, FiniteSets

(***************************************************************************)
(* IEEE-754 binary64, as far as calculate_years_to_maturity needs it.      *)
(* A double is [sign, bits, e]: bits is the 53-bit significand, most       *)
(* significant bit first, e the binary exponent of its last bit, so the    *)
(* value is sign * int(bits) * 2^e.  Zero has the empty significand.       *)
(***************************************************************************)
MantBits == 53

Abs(n) == IF n < 0 THEN -n ELSE n

Sign(n) == IF n < 0 THEN -1 ELSE IF n > 0 THEN 1 ELSE 0

RECURSIVE Pow2(_)
Pow2(k) == IF k <= 0 THEN 1 ELSE 2 * Pow2(k - 1)

Zeros(n) == IF n <= 0 THEN <<>> ELSE [i \in 1..n |-> 0]

FZero == [sign |-> 1, bits |-> <<>>, e |-> 0]

StripLeading(b) ==
    IF \A i \in 1..Len(b) : b[i] = 0 THEN <<>>
    ELSE LET k == CHOOSE i \in 1..Len(b) : b[i] = 1 /\ \A j \in 1..(i - 1) : b[j] = 0
         IN  SubSeq(b, k, Len(b))

\* b + 1 on a bit sequence; one bit longer when b is all ones.
IncBits(b) ==
    IF \A i \in 1..Len(b) : b[i] = 1 THEN <<1>> \o Zeros(Len(b))
    ELSE LET k == CHOOSE i \in 1..Len(b) : b[i] = 0 /\ \A j \in (i + 1)..Len(b) : b[j] = 1
         IN  SubSeq(b, 1, k - 1) \o <<1>> \o Zeros(Len(b) - k)

\* Round a nonzero bit string (first bit 1, last bit of weight 2^e, sticky: a
\* nonzero remainder lies below it) to 53 bits, ties to even.
RoundToDouble(sign, b, e, sticky) ==
    LET L == Len(b) IN
    IF L <= MantBits
    THEN [sign |-> sign, bits |-> b \o Zeros(MantBits - L), e |-> e - (MantBits - L)]
    ELSE LET head == SubSeq(b, 1, MantBits)
             rbit == b[MantBits + 1]
             st   == sticky \/ (\E i \in (MantBits + 2)..L : b[i] = 1)
             up   == rbit = 1 /\ (st \/ head[MantBits] = 1)
             inc  == IF up THEN IncBits(head) ELSE head
         IN  IF Len(inc) > MantBits
             THEN [sign |-> sign, bits |-> SubSeq(inc, 1, MantBits), e |-> e + (L - MantBits) + 1]
             ELSE [sign |-> sign, bits |-> inc, e |-> e + (L - MantBits)]

\* 2^i mod d, by repeated squaring (d * d stays within the integers).
RECURSIVE PowMod2(_, _)
PowMod2(i, d) ==
    IF i = 0 THEN 1 % d
    ELSE LET h == PowMod2(i \div 2, d)
         IN  (h * h * (IF i % 2 = 1 THEN 2 ELSE 1)) % d

\* Long division: n further quotient bits of r / d (0 <= r < d), and the
\* remainder left.  The remainder after i bits is r * 2^i mod d.
DivBits(r, d, n) ==
    LET rem(i) == (r * PowMod2(i, d)) % d
    IN  [bits |-> [i \in 1..n |-> IF 2 * rem(i - 1) >= d THEN 1 ELSE 0],
         rem  |-> rem(n)]

\* The largest k with d * 2^k <= a (a >= d > 0).
RECURSIVE ShiftDown(_, _)
ShiftDown(a, d) == IF 2 * d <= a THEN 1 + ShiftDown(a, 2 * d) ELSE 0

\* The least j with a * 2^j >= d (0 < a).
RECURSIVE ShiftUp(_, _)
ShiftUp(a, d) == IF a >= d THEN 0 ELSE 1 + ShiftUp(2 * a, d)

\* int / int true division: the correctly rounded double of n / d (d > 0).
FloatDiv(n, d) ==
    IF n = 0 THEN FZero
    ELSE LET a  == Abs(n)
             k  == IF a >= d THEN ShiftDown(a, d) ELSE -ShiftUp(a, d)
             aa == IF k < 0 THEN a * Pow2(-k) ELSE a
             dd == IF k > 0 THEN d * Pow2(k) ELSE d
             q  == DivBits(aa - dd, dd, MantBits)
         IN  RoundToDouble(Sign(n), <<1>> \o q.bits, k - MantBits, q.rem # 0)

\* a + b on bit strings of equal length n: n + 1 bits, the first the carry
\* out.  The carry into place i is 1 iff some place j below it generates a
\* carry (both bits 1) and every place between propagates it (one bit 1).
AddBits(a, b) ==
    LET n    == Len(a)
        c(i) == IF \E j \in (i + 1)..n : /\ a[j] = 1 /\ b[j] = 1
                                         /\ \A k \in (i + 1)..(j - 1) : a[k] + b[k] = 1
                THEN 1 ELSE 0
    IN  <<c(0)>> \o [i \in 1..n |-> (a[i] + b[i] + c(i)) % 2]

\* a - b on bit strings of equal length, a >= b.  The borrow from place i is
\* 1 iff some place j below it needs one (0 - 1) and every place between
\* hands it on (equal bits).
SubBits(a, b) ==
    LET n     == Len(a)
        br(i) == IF \E j \in (i + 1)..n : /\ a[j] = 0 /\ b[j] = 1
                                          /\ \A k \in (i + 1)..(j - 1) : a[k] = b[k]
                 THEN 1 ELSE 0
    IN  [i \in 1..n |-> (a[i] - b[i] - br(i) + 2) % 2]

\* a < b on bit strings of equal length.
LessBits(a, b) ==
    \E i \in 1..Len(a) : a[i] < b[i] /\ \A j \in 1..(i - 1) : a[j] = b[j]

\* x + y in binary64, round to nearest, ties to even.
FloatAdd(x, y) ==
    IF x.bits = <<>> THEN y
    ELSE IF y.bits = <<>> THEN x
    ELSE LET emin == IF x.e < y.e THEN x.e ELSE y.e
             xa   == x.bits \o Zeros(x.e - emin)
             ya   == y.bits \o Zeros(y.e - emin)
             n    == IF Len(xa) > Len(ya) THEN Len(xa) ELSE Len(ya)
             xb   == Zeros(n - Len(xa)) \o xa
             yb   == Zeros(n - Len(ya)) \o ya
         IN  IF x.sign = y.sign
             THEN RoundToDouble(x.sign, StripLeading(AddBits(xb, yb)), emin, FALSE)
             ELSE IF xb = yb THEN FZero
             ELSE IF LessBits(xb, yb)
                  THEN RoundToDouble(y.sign, StripLeading(SubBits(yb, xb)), emin, FALSE)
                  ELSE RoundToDouble(x.sign, StripLeading(SubBits(xb, yb)), emin, FALSE)

\* x / 2: exact in binary64 (no subnormals arise here).
FloatHalf(x) == IF x.bits = <<>> THEN x ELSE [x EXCEPT !.e = x.e - 1]

\* The integer a short bit string denotes (halving keeps the recursion shallow).
RECURSIVE BitsToInt(_)
BitsToInt(b) ==
    IF Len(b) = 0 THEN 0
    ELSE IF Len(b) = 1 THEN b[1]
    ELSE LET h == Len(b) \div 2
         IN  BitsToInt(SubSeq(b, 1, h)) * Pow2(Len(b) - h) + BitsToInt(SubSeq(b, h + 1, Len(b)))

\* Python's round(x) on a float: nearest integer, ties to even.
FloatRound(x) ==
    IF x.bits = <<>> THEN 0
    ELSE IF x.e >= 0 THEN x.sign * BitsToInt(x.bits) * Pow2(x.e)
    ELSE LET f    == -x.e                       \* number of fraction bits
             b    == Zeros(f + 1 - MantBits) \o x.bits
             L    == Len(b)
             ip   == BitsToInt(SubSeq(b, 1, L - f))
             rbit == b[L - f + 1]
             st   == \E i \in (L - f + 2)..L : b[i] = 1
             up   == rbit = 1 /\ (st \/ ip % 2 = 1)
         IN  x.sign * (IF up THEN ip + 1 ELSE ip)

(***************************************************************************)
(* Calendar dates.  A date is <<year, month, day>>, what                   *)
(* datetime.strptime(s, '%Y-%m-%d') yields; date differences are taken on  *)
(* proleptic Gregorian ordinals, as datetime subtraction does.             *)
(***************************************************************************)
IsLeap(y) == y % 4 = 0 /\ (y % 100 # 0 \/ y % 400 = 0)

DaysInMonth(y, m) ==
    IF m = 2 THEN (IF IsLeap(y) THEN 29 ELSE 28)
    ELSE IF m \in {4, 6, 9, 11} THEN 30 ELSE 31

IsValidDate(dt) ==
    /\ dt[1] \in 1..9999
    /\ dt[2] \in 1..12
    /\ dt[3] \in 1..DaysInMonth(dt[1], dt[2])

DaysBeforeYear(y) ==
    (y - 1) * 365 + ((y - 1) \div 4) - ((y - 1) \div 100) + ((y - 1) \div 400)

\* A variant of DaysBeforeMonth that forgets the leap day.
DaysBeforeMonthNoLeap(y, m) ==
    <<0, 31, 59, 90, 120, 151, 181, 212, 243, 273, 304, 334>>[m]

DaysBeforeMonth(y, m) ==
    <<0, 31, 59, 90, 120, 151, 181, 212, 243, 273, 304, 334>>[m]
        + (IF m > 2 /\ IsLeap(y) THEN 1 ELSE 0)

ToOrdinal(dt) == DaysBeforeYear(dt[1]) + DaysBeforeMonth(dt[1], dt[2]) + dt[3]

\* (a - b).days
DaysBetween(a, b) == ToOrdinal(a) - ToOrdinal(b)

DaysPerYear == 365

\* calculate_years_to_maturity: int(round((A + B) / 2)) in binary64, with
\* A = (expiration - valuation).days / 365, B = (vesting_end - valuation).days / 365.
calculate_years_to_maturity(valuation_date, expiration_date, vesting_end_date) ==
    LET ytm_valuation_expiration ==
            FloatDiv(DaysBetween(expiration_date, valuation_date), DaysPerYear)
        ytm_valuation_vesting ==
            FloatDiv(DaysBetween(vesting_end_date, valuation_date), DaysPerYear)
    IN  FloatRound(FloatHalf(FloatAdd(ytm_valuation_expiration, ytm_valuation_vesting)))

(***************************************************************************)
(* Values.  A float that the code may leave undefined is [k, v]: k = "num" *)
(* with the value v, k = "nan" (numpy's NaN) or k = "none" (Python's       *)
(* None).  Percentages rounded to two decimals are integers in hundredths  *)
(* of a percent: 25.34 is Num(2534).                                       *)
(***************************************************************************)
Num(v) == [k |-> "num", v |-> v]

NaN == [k |-> "nan", v |-> 0]

None == [k |-> "none", v |-> 0]

IsNum(x) == x.k = "num"

\* The largest u with u * u <= x, for lo * lo <= x < hi * hi.
RECURSIVE IsqrtIn(_, _, _)
IsqrtIn(x, lo, hi) ==
    IF hi - lo <= 1 THEN lo
    ELSE LET mid == (lo + hi) \div 2
         IN  IF mid * mid <= x THEN IsqrtIn(x, mid, hi) ELSE IsqrtIn(x, lo, mid)

\* 46341^2 exceeds the largest integer handled.
Isqrt(x) == IsqrtIn(x, 0, 46341)

\* sqrt(num / den) rounded to the nearest integer (num >= 0, den > 0): the
\* largest v with (2v - 1)^2 <= 4 num / den.
RoundSqrt(num, den) == (Isqrt((4 * num) \div den) + 1) \div 2

\* num / den rounded to the nearest integer, ties to even (den > 0).
RoundHalfEven(num, den) ==
    LET q == num \div den
        r == num % den
    IN  IF 2 * r < den THEN q
        ELSE IF 2 * r > den THEN q + 1
        ELSE IF q % 2 = 0 THEN q ELSE q + 1

RECURSIVE SumSeq(_)
SumSeq(sq) == IF Len(sq) = 0 THEN 0 ELSE sq[1] + SumSeq(Tail(sq))

(***************************************************************************)
(* calculate_volatility.  A price series is a sequence of observations     *)
(* [date, lp] with strictly increasing dates; lp is the natural logarithm  *)
(* of the adjusted close in units of 0.01, so that                         *)
(* np.log(prices / prices.shift(1)) is the difference of consecutive lp    *)
(* in the same unit.                                                       *)
(***************************************************************************)
Frequencies == {"daily", "weekly", "monthly"}

\* annual_factor squared: np.sqrt(252), np.sqrt(52), np.sqrt(12)
PeriodsPerYear(frequency) ==
    IF frequency = "daily" THEN 252
    ELSE IF frequency = "weekly" THEN 52 ELSE 12

\* datetime.weekday(): Monday is 0, Friday is 4.
Weekday(dt) == (ToOrdinal(dt) + 6) % 7

\* The resampling bin of an observation: 'W-FRI' bins end on the Friday on or
\* after the date (numbered by that Friday's ordinal / 7), 'M' bins are the
\* calendar months (numbered year * 12 + month).
BinOf(dt, frequency) ==
    IF frequency = "weekly"
    THEN (ToOrdinal(dt) + ((4 - Weekday(dt) + 7) % 7)) \div 7
    ELSE dt[1] * 12 + dt[2]

\* adj_close.resample(rule).last(): one value per bin from the first
\* observation's bin to the last one's, the bin's last observation, NaN for a
\* bin that holds none.
Resample(data, frequency) ==
    LET first == BinOf(data[1].date, frequency)
        last  == BinOf(data[Len(data)].date, frequency)
        inbin(b) == {i \in 1..Len(data) : BinOf(data[i].date, frequency) = b}
    IN  [j \in 1..(last - first + 1) |->
            IF inbin(first + j - 1) = {} THEN NaN
            ELSE Num(data[CHOOSE i \in inbin(first + j - 1) :
                              \A h \in inbin(first + j - 1) : h <= i].lp)]

\* np.log(prices / prices.shift(1)).dropna(): the first entry and every
\* entry with a NaN operand are dropped.
LogReturns(prices) ==
    LET idx == {i \in 2..Len(prices) : IsNum(prices[i]) /\ IsNum(prices[i - 1])}
        RECURSIVE Collect(_)
        Collect(i) ==
            IF i > Len(prices) THEN <<>>
            ELSE (IF i \in idx THEN <<prices[i].v - prices[i - 1].v>> ELSE <<>>)
                     \o Collect(i + 1)
    IN  Collect(2)

\* log_returns.std() * annual_factor, times 100, rounded to 2 decimals, in
\* hundredths of a percent.  The sample variance (ddof = 1) of n returns is
\* (n * sum r^2 - (sum r)^2) / (n (n - 1)) in units of 1e-4; fewer than two
\* returns have no sample deviation: NaN.
AnnualizedVolatility(returns, frequency) ==
    LET n  == Len(returns)
        s1 == SumSeq(returns)
        s2 == SumSeq([i \in 1..n |-> returns[i] * returns[i]])
    IN  IF n < 2 THEN NaN
        ELSE Num(RoundSqrt(10000 * PeriodsPerYear(frequency) * (n * s2 - s1 * s1),
                           n * (n - 1)))

\* calculate_volatility on the data yf.download returned: [k |-> "raise"]
\* for its two ValueErrors, else the value it returns.
calculate_volatility(data, frequency) ==
    IF Len(data) = 0 THEN [k |-> "raise", v |-> 0]
    ELSE IF frequency \notin Frequencies THEN [k |-> "raise", v |-> 0]
    ELSE LET prices == IF frequency = "daily"
                       THEN [i \in 1..Len(data) |-> Num(data[i].lp)]
                       ELSE Resample(data, frequency)
         IN  AnnualizedVolatility(LogReturns(prices), frequency)

(***************************************************************************)
(* fetch_treasury_yield.  The data yf.download returned is a sequence of   *)
(* rows [ord, close]: the row's date as an ordinal and its Close in        *)
(* thousandths of a percent.                                               *)
(***************************************************************************)
\* round(latest_yield, 2), in hundredths of a percent.
RoundYield(close) == RoundHalfEven(close, 10)

fetch_treasury_yield(data, date) ==
    IF Len(data) = 0 THEN [k |-> "raise", v |-> 0]
    ELSE IF \E i \in 1..Len(data) : data[i].ord = ToOrdinal(date)
    THEN Num(RoundYield(data[CHOOSE i \in 1..Len(data) : data[i].ord = ToOrdinal(date)].close))
    ELSE Num(RoundYield(data[Len(data)].close))

(***************************************************************************)
(* The yield curve (lines 144-178).                                       *)
(***************************************************************************)
\* treasury_tickers, in insertion order; maturity is int(name.split('-')[0]).
treasury_tickers ==
    << [name |-> "1-year",  symbol |-> "^IRX", maturity |-> 1],
       [name |-> "5-year",  symbol |-> "^FVX", maturity |-> 5],
       [name |-> "10-year", symbol |-> "^TNX", maturity |-> 10],
       [name |-> "30-year", symbol |-> "^TYX", maturity |-> 30] >>

NumInstruments == Len(treasury_tickers)

known_maturities == {treasury_tickers[i].maturity : i \in 1..NumInstruments}

max_maturity == CHOOSE m \in known_maturities : \A n \in known_maturities : n <= m

intermediate_maturities == (1..max_maturity) \ known_maturities

all_maturities == known_maturities \cup intermediate_maturities

\* pd.DataFrame(yields): a Yield column that holds a float beside a None is
\* converted to float64 and its None become NaN; a column of None alone
\* stays a column of objects.
YieldColumn(yields) ==
    IF \E i \in 1..Len(yields) : yields[i].Yield.k # "none"
    THEN [i \in 1..Len(yields) |->
             IF yields[i].Yield.k = "none" THEN NaN ELSE yields[i].Yield]
    ELSE [i \in 1..Len(yields) |-> yields[i].Yield]

\* known_yields (lines 154-161): the (maturity, yield) pairs whose yield "is
\* not None", as a function of the maturity (sorted() orders them by it).
KnownYields(yields) ==
    LET col  == YieldColumn(yields)
        kept == {i \in 1..Len(yields) : col[i].k # "none"}
    IN  [m \in {treasury_tickers[i].maturity : i \in kept} |->
            col[CHOOSE i \in kept : treasury_tickers[i].maturity = m]]

\* np.interp(x, xp, fp) at one point, rounded to 2 decimals (line 169); known
\* is fp as a function of xp.  Left of the first point and right of the last
\* the end value is taken; a NaN at either bracketing point gives NaN.
InterpolatedYield(x, known) ==
    LET xp == DOMAIN known
        lo == {m \in xp : m <= x}
        hi == {m \in xp : m > x}
    IN  IF lo = {} THEN known[CHOOSE m \in xp : \A n \in xp : m <= n]
        ELSE IF hi = {} THEN known[CHOOSE m \in xp : \A n \in xp : n <= m]
        ELSE LET x0 == CHOOSE m \in lo : \A n \in lo : n <= m
                 x1 == CHOOSE m \in hi : \A n \in hi : m <= n
             IN  IF x = x0 THEN known[x0]
                 ELSE IF ~IsNum(known[x0]) \/ ~IsNum(known[x1]) THEN NaN
                 ELSE Num(RoundHalfEven(known[x0].v * (x1 - x0)
                                            + (known[x1].v - known[x0].v) * (x - x0),
                                        x1 - x0))

\* A variant of BuildCurve that rounds the known yields to one decimal.
BuildCurveRoundedKnown(yields) ==
    LET known == KnownYields(yields)
    IN  IF DOMAIN known # {}
        THEN [m \in all_maturities |->
                 IF m \in DOMAIN known
                 THEN (IF IsNum(known[m]) THEN Num(RoundHalfEven(known[m].v, 10) * 10)
                       ELSE known[m])
                 ELSE InterpolatedYield(m, known)]
        ELSE [m \in all_maturities |-> None]

\* interpolated_results / interpolated_df: one value per maturity.
BuildCurve(yields) ==
    LET known == KnownYields(yields)
    IN  IF DOMAIN known # {}
        THEN [m \in all_maturities |->
                 IF m \in DOMAIN known THEN known[m] ELSE InterpolatedYield(m, known)]
        ELSE [m \in all_maturities |-> None]

(***************************************************************************)
(* Volatility table and average (lines 107-122).  A rational is [k, num,   *)
(* den].                                                                   *)
(***************************************************************************)
Rat(n, d) == [k |-> "num", num |-> n, den |-> d]

RatNaN == [k |-> "nan", num |-> 0, den |-> 1]

\* The numeric entries of the period column: mean() skips NaN.
NumericVols(volatilities) ==
    LET RECURSIVE Pick(_)
        Pick(i) == IF i > Len(volatilities) THEN <<>>
                   ELSE (IF IsNum(volatilities[i].vol) THEN <<volatilities[i].vol.v>> ELSE <<>>)
                            \o Pick(i + 1)
    IN  Pick(1)

\* A variant of AverageVolatility that divides by the number of rows, the
\* NaN rows included.
AverageVolatilityAllRows(volatilities) ==
    LET vals == NumericVols(volatilities)
    IN  IF Len(vals) = 0 THEN RatNaN
        ELSE Rat(SumSeq(vals), Len(volatilities) * 100 * 100)

\* volatility_df.mean(axis=0, numeric_only=True).mean() / 100
AverageVolatility(volatilities) ==
    LET vals == NumericVols(volatilities)
    IN  IF Len(vals) = 0 THEN RatNaN
        ELSE Rat(SumSeq(vals), Len(vals) * 100 * 100)

\* The 'Average' row: the column mean rounded to 2 decimals; no period
\* column exists when no ticker was recorded.
AverageRow(volatilities) ==
    LET vals == NumericVols(volatilities)
    IN  [Ticker |-> "Average",
         vol    |-> IF Len(volatilities) = 0 THEN None
                    ELSE IF Len(vals) = 0 THEN NaN
                    ELSE Num(RoundHalfEven(SumSeq(vals), Len(vals)))]

(***************************************************************************)
(* black_scholes.  The closed form is kept symbolic ([k |-> "bs"] with its  *)
(* arguments); what is computed is where numpy leaves the formula's        *)
(* domain: a NaN argument, sqrt of a negative T, and the division by       *)
(* sigma * sqrt(T) = 0, which numpy answers with inf or NaN, not an        *)
(* exception.                                                              *)
(***************************************************************************)
OptionValue(kind, S, K, T, r, sigma) ==
    [k |-> kind, S |-> S, K |-> K, T |-> T, r |-> r, sigma |-> sigma]

\* The sign of ln(S / K) + r * T for sigma = 0, where the signs of the two
\* terms decide it (2 otherwise).
DriftSign(S, K, T, r) ==
    LET a == Sign(S - K)
        b == Sign(r.num) * Sign(T)
    IN  IF a = 0 THEN b ELSE IF b = 0 \/ b = a THEN a ELSE 2

black_scholes(S, K, T, r, sigma) ==
    IF r.k # "num" \/ sigma.k # "num" \/ T < 0
    THEN OptionValue("nan", S, K, T, r, sigma)
    ELSE IF sigma.num # 0 /\ T # 0
    THEN OptionValue("bs", S, K, T, r, sigma)
    ELSE LET sgn == IF T = 0 THEN Sign(S - K) * Sign(
                        IF sigma.num = 0 THEN 1 ELSE sigma.num)
                    ELSE DriftSign(S, K, T, r)
         IN  \* d1 = d2 = +inf: S - K exp(-rT); -inf: 0; 0/0: NaN
             IF sgn = 1 THEN OptionValue("S-K*exp(-rT)", S, K, T, r, sigma)
             ELSE IF sgn = -1 THEN OptionValue("zero", S, K, T, r, sigma)
             ELSE IF sgn = 0 THEN OptionValue("nan", S, K, T, r, sigma)
             ELSE OptionValue("undetermined", S, K, T, r, sigma)

\* Fixed-point numbers for the one value of the pricer that is rounded to
\* cents: a sequence of digits in base B, the first the integer part. B is
\* the denominator of the rate, so that dividing by it moves the digits.
MulSmall(a, n, B) ==
    LET RECURSIVE Go(_, _)
        Go(i, c) == IF i = 0 THEN <<>>
                    ELSE LET p == a[i] * n + c
                         IN  Go(i - 1, IF i = 1 THEN 0 ELSE p \div B)
                                 \o << IF i = 1 THEN p ELSE p % B >>
    IN  Go(Len(a), 0)

ShiftRight(a) == <<0>> \o SubSeq(a, 1, Len(a) - 1)

DivSmall(a, k, B) ==
    LET RECURSIVE Go(_, _)
        Go(i, rem) == IF i > Len(a) THEN <<>>
                      ELSE LET cur == rem * B + a[i]
                           IN  << cur \div k >> \o Go(i + 1, cur % k)
    IN  Go(1, 0)

\* 1 - a, for 0 <= a <= 1.
OneMinus(a, B) ==
    LET RECURSIVE Go(_, _)
        Go(i, borrow) == IF i = 0 THEN <<>>
                         ELSE LET d == (IF i = 1 THEN 1 ELSE 0) - a[i] - borrow
                              IN  Go(i - 1, IF d < 0 THEN 1 ELSE 0)
                                      \o << IF d < 0 THEN d + B ELSE d >>
    IN  Go(Len(a), 0)

\* exp(-n / B) for 0 <= n < B, to 4 digits in base B: 16 terms of the series,
\* nested as 1 - x/1 (1 - x/2 (1 - x/3 ( ... ))) and computed from the inside,
\* h being the value of the factor after the k-th.
RECURSIVE ExpNegFrom(_, _, _, _)
ExpNegFrom(k, h, n, B) ==
    IF k = 0 THEN h
    ELSE CHOOSE e \in { ExpNegFrom(k - 1, f, n, B) :
                          f \in { OneMinus(DivSmall(ShiftRight(MulSmall(h, n, B)), k, B), B) } } :
             TRUE

ExpNeg(n, B) == ExpNegFrom(16, <<1, 0, 0, 0, 0>>, n, B)

\* round(S - K exp(-n / B), 2) in cents.
RoundIntrinsic(S, K, n, B) ==
    LET x    == MulSmall(ExpNeg(n, B), 100 * K, B)      \* 100 K exp(-n / B)
        up   == 100 * S - x[1]
        rest == \E i \in 3..Len(x) : x[i] > 0
    IN  IF 2 * x[2] < B \/ (2 * x[2] = B /\ ~rest /\ up % 2 = 0) THEN up
        ELSE IF 2 * x[2] = B /\ ~rest THEN up - 1
        ELSE IF \A i \in 2..Len(x) : x[i] = 0 THEN up
        ELSE up - 1

\* round(option_valuation, 2) (line 209), in cents where the model computes
\* the value: NaN stays NaN, 0.0 stays 0.0, S - K exp(-rT) is computed (for
\* rT < 1 and K < 100); the Black-Scholes value proper is kept as the
\* rounding of its expression.
RoundOption(value) ==
    IF value.k = "nan" THEN NaN
    ELSE IF value.k = "zero" THEN Num(0)
    ELSE IF /\ value.k = "S-K*exp(-rT)"
            /\ value.r.num >= 0
            /\ value.r.num * value.T < value.r.den
            /\ 100 * value.K < value.r.den
    THEN Num(RoundIntrinsic(value.S, value.K, value.r.num * value.T, value.r.den))
    ELSE [k |-> "round2", v |-> 0, of |-> value]

(***************************************************************************)
(* Inputs: config/config.json and what yf.download returns.               *)
(***************************************************************************)
\* The largest number of tickers in public_comps.
MaxTickers == 2

TickerNames == <<"AAA", "BBB", "CCC", "DDD">>

\* (valuation_date, expiration_date, vesting_end_date)
DateConfigs ==
    { << <<2020, 1, 1>>,  <<2025, 1, 1>>,  <<2023, 1, 1>> >>,     \* 4 years
      << <<2020, 1, 1>>,  <<2027, 1, 1>>,  <<2023, 1, 1>> >>,     \* 5 years
      << <<2020, 1, 1>>,  <<2045, 1, 1>>,  <<2035, 1, 1>> >>,     \* 20 years
      << <<2020, 1, 1>>,  <<2070, 1, 1>>,  <<2050, 1, 1>> >>,     \* 40 years
      << <<2020, 1, 1>>,  <<2020, 3, 1>>,  <<2020, 2, 1>> >>,     \* 0 years
      << <<2020, 1, 1>>,  <<2019, 1, 1>>,  <<2019, 1, 1>> >>,     \* -1 year
      << <<2020, 2, 29>>, <<2021, 3, 1>>,  <<2021, 2, 28>> >> }   \* 1 year back from 29 Feb

\* config['grant_date'], read only by the report (line 200): <<>> when the key
\* is absent; 30 February is a string strptime rejects.
GrantDates == { <<>>, <<2019, 6, 1>>, <<2019, 2, 30>> }

ConfigFrequencies == Frequencies \cup {"hourly"}

StockPrices == {50}

StrikePrices == {45, 50}

\* What yf.download(ticker, ...) may return for a ticker: "raise" (the
\* download fails), or a price series.
PriceSeries ==
    [ empty |-> <<>>,
      one   |-> << [date |-> <<2019, 10, 4>>, lp |-> 460] >>,
      flat  |-> << [date |-> <<2019, 9, 30>>, lp |-> 460],
                   [date |-> <<2019, 10, 4>>, lp |-> 460],
                   [date |-> <<2019, 10, 11>>, lp |-> 460],
                   [date |-> <<2019, 10, 18>>, lp |-> 460] >>,
      up    |-> << [date |-> <<2019, 9, 30>>, lp |-> 460],
                   [date |-> <<2019, 10, 4>>, lp |-> 460],
                   [date |-> <<2019, 10, 11>>, lp |-> 460],
                   [date |-> <<2019, 10, 18>>, lp |-> 462],
                   [date |-> <<2019, 10, 31>>, lp |-> 464],
                   [date |-> <<2019, 11, 4>>, lp |-> 462],
                   [date |-> <<2019, 11, 29>>, lp |-> 464] >>,
      wavy  |-> << [date |-> <<2019, 9, 30>>, lp |-> 460],
                   [date |-> <<2019, 10, 4>>, lp |-> 462],
                   [date |-> <<2019, 10, 11>>, lp |-> 462],
                   [date |-> <<2019, 10, 18>>, lp |-> 464],
                   [date |-> <<2019, 10, 31>>, lp |-> 466],
                   [date |-> <<2019, 11, 4>>, lp |-> 464],
                   [date |-> <<2019, 11, 29>>, lp |-> 466] >> ]

PriceFeeds == {"raise"} \cup DOMAIN PriceSeries

\* What yf.download(symbol, ...) may return for a treasury instrument around
\* the valuation date: "raise", no rows, a row on the date itself after one
\* of the day before, or rows of the two days before only.
YieldQuote(symbol) ==
    IF symbol = "^IRX" THEN 1518
    ELSE IF symbol = "^FVX" THEN 1642
    ELSE IF symbol = "^TNX" THEN 1853 ELSE 2287

YieldFeeds == {"raise", "empty", "on_date", "before"}

YieldData(feed, symbol, date) ==
    IF feed = "on_date"
    THEN << [ord |-> ToOrdinal(date) - 1, close |-> YieldQuote(symbol) - 31],
            [ord |-> ToOrdinal(date),     close |-> YieldQuote(symbol)] >>
    ELSE IF feed = "before"
    THEN << [ord |-> ToOrdinal(date) - 2, close |-> YieldQuote(symbol) + 27],
            [ord |-> ToOrdinal(date) - 1, close |-> YieldQuote(symbol)] >>
    ELSE <<>>

(***************************************************************************)
(* main(): the state of one run.                                           *)
(***************************************************************************)
VARIABLES
    pc,                 \* the step main() is at
    config,             \* config.json, as loaded
    years_to_maturity,
    start_date,
    end_date,
    tick,               \* index of the next ticker of the volatility loop
    volatilities,       \* the rows appended at line 102
    fetched,            \* what yf.download returned for each ticker so far
    volatility_df,      \* the table with its 'Average' row (line 122)
    average_volatility,
    ynext,              \* index of the next treasury instrument
    yields,             \* the rows appended at lines 138 and 142
    known_yields,       \* the interpolation input (lines 154-161)
    interpolated_df,
    risk_free_rate,
    option_valuation,
    report,             \* the three sheets written at lines 223-226
    console,            \* the error messages printed at lines 105 and 141
    calls,              \* the calls main() has made, in order
    error,              \* the exception main() ended with
    mdates,             \* the dates of the maturity calculator's check
    mshift,
    mresult,
    mbase

pipeline_vars ==
    << pc, config, years_to_maturity, start_date, end_date, tick, volatilities,
       fetched, volatility_df, average_volatility, ynext, yields, known_yields, interpolated_df, risk_free_rate, option_valuation, report,
       console, calls, error >>

maturity_vars == << mdates, mshift, mresult, mbase >>

vars == << pipeline_vars, maturity_vars >>

NoDate == <<0, 0, 0>>

\* An exception that ended the run: its type, the line that raised it, and the
\* maturities the KeyError of line 189 lists.
NoError == [type |-> "none", line |-> 0, available |-> {}]

NoOption == OptionValue("unset", 0, 0, 0, RatNaN, RatNaN)

NoReport == [written |-> FALSE]

Configs ==
    [ stock_price       : StockPrices,
      strike_price      : StrikePrices,
      dates             : DateConfigs,
      grant_date        : GrantDates,
      public_comps      : {SubSeq(TickerNames, 1, n) : n \in 0..MaxTickers},
      frequency         : ConfigFrequencies ]

valuation_date == config.dates[1]

expiration_date == config.dates[2]

vesting_end_date == config.dates[3]

tickers == config.public_comps

InitPipeline ==
    /\ pc = "maturity"
    /\ config \in Configs
    /\ years_to_maturity = 0
    /\ start_date = NoDate
    /\ end_date = NoDate
    /\ tick = 1
    /\ volatilities = <<>>
    /\ fetched = <<>>
    /\ volatility_df = <<>>
    /\ average_volatility = RatNaN
    /\ ynext = 1
    /\ yields = <<>>
    /\ known_yields = <<>>
    /\ interpolated_df = <<>>
    /\ risk_free_rate = RatNaN
    /\ option_valuation = NoOption
    /\ report = NoReport
    /\ console = <<>>
    /\ calls = <<>>
    /\ error = NoError

IdleMaturity ==
    /\ mdates = <<NoDate, NoDate, NoDate>>
    /\ mshift = 0
    /\ mresult = 0
    /\ mbase = 0

Init == InitPipeline /\ IdleMaturity

\* Line 88.
CalcMaturity ==
    /\ pc = "maturity"
    /\ years_to_maturity' =
           calculate_years_to_maturity(valuation_date, expiration_date, vesting_end_date)
    /\ calls' = Append(calls, <<"calculate_years_to_maturity", "">>)
    /\ pc' = "window"
    /\ UNCHANGED << config, start_date, end_date, tick, volatilities, fetched,
                    volatility_df, average_volatility, ynext, yields, known_yields, interpolated_df, risk_free_rate, option_valuation,
                    report, console, error, maturity_vars >>

\* Lines 92-94: datetime.replace(year=...) raises ValueError for a date that
\* does not exist (29 February of a common year, a year below 1).
Window ==
    /\ pc = "window"
    /\ LET start == << valuation_date[1] - years_to_maturity,
                       valuation_date[2], valuation_date[3] >>
       IN  IF IsValidDate(start)
           THEN /\ start_date' = start
                /\ end_date' = valuation_date
                /\ pc' = "volatility"
                /\ error' = error
           ELSE /\ pc' = "failed"
                /\ error' = [type |-> "ValueError", line |-> 93, available |-> {}]
                /\ UNCHANGED << start_date, end_date >>
    /\ UNCHANGED << config, years_to_maturity, tick, volatilities, fetched,
                    volatility_df, average_volatility, ynext, yields, known_yields, interpolated_df, risk_free_rate, option_valuation,
                    report, console, calls, maturity_vars >>

\* A variant of NextTicker that stays on the same ticker (a retry).
RetryTicker(i) == i

\* The index of the ticker the loop of line 99 takes after ticker i.
NextTicker(i) == i + 1

\* Lines 99-105, one iteration: any exception of calculate_volatility (the
\* download's, or its own ValueError) is printed and the loop goes on.
FetchTicker ==
    /\ pc = "volatility"
    /\ tick <= Len(tickers)
    /\ \E feed \in PriceFeeds :
         LET ticker == tickers[tick]
             volatility == IF feed = "raise" THEN [k |-> "raise", v |-> 0]
                           ELSE calculate_volatility(PriceSeries[feed], config.frequency)
         IN  /\ fetched' = Append(fetched, feed)
             /\ calls' = Append(calls, <<"calculate_volatility", ticker>>)
             /\ IF volatility.k = "raise"
                THEN /\ console' = Append(console, <<"Error for", ticker>>)
                     /\ volatilities' = volatilities
                ELSE /\ volatilities' =
                            Append(volatilities, [Ticker |-> ticker, vol |-> volatility])
                     /\ console' = console
    /\ tick' = NextTicker(tick)
    /\ UNCHANGED << pc, config, years_to_maturity, start_date, end_date,
                    volatility_df, average_volatility, ynext, yields, known_yields, interpolated_df, risk_free_rate, option_valuation,
                    report, error, maturity_vars >>

\* Lines 107-123.
Aggregate ==
    /\ pc = "volatility"
    /\ tick > Len(tickers)
    /\ average_volatility' = AverageVolatility(volatilities)
    /\ volatility_df' = Append(volatilities, AverageRow(volatilities))
    /\ pc' = "yields"
    /\ UNCHANGED << config, years_to_maturity, start_date, end_date, tick,
                    volatilities, fetched, ynext, yields, known_yields,
                    interpolated_df, risk_free_rate, option_valuation, report,
                    console, calls, error, maturity_vars >>

\* Lines 134-142, one iteration: a failed fetch is printed and recorded with
\* the yield None.
FetchYield ==
    /\ pc = "yields"
    /\ ynext <= NumInstruments
    /\ \E feed \in YieldFeeds :
         LET instrument == treasury_tickers[ynext]
             latest_yield ==
                 IF feed = "raise" THEN [k |-> "raise", v |-> 0]
                 ELSE fetch_treasury_yield(
                          YieldData(feed, instrument.symbol, valuation_date),
                          valuation_date)
         IN  /\ calls' = Append(calls, <<"fetch_treasury_yield", instrument.symbol>>)
             /\ IF latest_yield.k = "raise"
                THEN /\ console' = Append(console, <<"Error fetching data for", instrument.name>>)
                     /\ yields' = Append(yields, [Ticker |-> instrument.name, Yield |-> None])
                ELSE /\ yields' = Append(yields, [Ticker |-> instrument.name,
                                                  Yield |-> latest_yield])
                     /\ console' = console
    /\ ynext' = ynext + 1
    /\ UNCHANGED << pc, config, years_to_maturity, start_date, end_date, tick,
                    volatilities, fetched, volatility_df, average_volatility,
                    known_yields, interpolated_df, risk_free_rate, option_valuation,
                    report, error, maturity_vars >>

\* Lines 144-178.
Interpolate ==
    /\ pc = "yields"
    /\ ynext > NumInstruments
    /\ known_yields' = KnownYields(yields)
    /\ interpolated_df' = BuildCurve(yields)
    /\ pc' = "lookup"
    /\ UNCHANGED << config, years_to_maturity, start_date, end_date, tick,
                    volatilities, fetched, volatility_df, average_volatility, ynext,
                    yields, risk_free_rate, option_valuation, report,
                    console, calls, error, maturity_vars >>

\* Lines 184-192: KeyError for a label that is not in the index; the value
\* found is divided by 100, which raises TypeError for None.
Lookup ==
    /\ pc = "lookup"
    /\ IF years_to_maturity \notin DOMAIN interpolated_df
       THEN /\ pc' = "failed"
            /\ error' = [type |-> "KeyError", line |-> 189,
                         available |-> DOMAIN interpolated_df]
            /\ risk_free_rate' = risk_free_rate
       ELSE IF interpolated_df[years_to_maturity].k = "none"
       THEN /\ pc' = "failed"
            /\ error' = [type |-> "TypeError", line |-> 191, available |-> {}]
            /\ risk_free_rate' = risk_free_rate
       ELSE /\ pc' = "price"
            /\ error' = error
            /\ risk_free_rate' =
                   IF IsNum(interpolated_df[years_to_maturity])
                   THEN Rat(interpolated_df[years_to_maturity].v, 100 * 100)
                   ELSE RatNaN
    /\ UNCHANGED << config, years_to_maturity, start_date, end_date, tick,
                    volatilities, fetched, volatility_df, average_volatility, ynext,
                    yields, known_yields, interpolated_df,
                    option_valuation, report, console, calls, maturity_vars >>

\* Line 195.
Price ==
    /\ pc = "price"
    /\ option_valuation' = black_scholes(config.stock_price, config.strike_price,
                                         years_to_maturity, risk_free_rate,
                                         average_volatility)
    /\ calls' = Append(calls, <<"black_scholes", "">>)
    /\ pc' = "report"
    /\ UNCHANGED << config, years_to_maturity, start_date, end_date, tick,
                    volatilities, fetched, volatility_df, average_volatility, ynext,
                    yields, known_yields, interpolated_df,
                    risk_free_rate, error, report, console, maturity_vars >>

\* round(x, 4) of a rational, in ten-thousandths.
Round4(x) == IF x.k = "num" THEN Num(RoundHalfEven(x.num * 10000, x.den)) ELSE NaN

\* Lines 198-228: the input sheet is built (line 200 reads and parses
\* config['grant_date']: KeyError when the key is absent, ValueError when it
\* is no date), then the three sheets of option_valuation_results.xlsx are
\* written, which the file system may refuse (lines 219-226).
WriteReport ==
    /\ pc = "report"
    /\ IF Len(config.grant_date) = 0
       THEN /\ pc' = "failed"
            /\ error' = [type |-> "KeyError", line |-> 200, available |-> {}]
            /\ report' = report
       ELSE IF ~IsValidDate(config.grant_date)
       THEN /\ pc' = "failed"
            /\ error' = [type |-> "ValueError", line |-> 200, available |-> {}]
            /\ report' = report
       ELSE \E writable \in BOOLEAN :
              IF writable
              THEN /\ report' =
                        [ written       |-> TRUE,
                          black_scholes |-> [ grant_date       |-> config.grant_date,
                                              valuation_date   |-> valuation_date,
                                              expiration_date  |-> expiration_date,
                                              vesting_end_date |-> vesting_end_date,
                                              stock_price      |-> config.stock_price,
                                              strike_price     |-> config.strike_price,
                                              ytm        |-> years_to_maturity,
                                              risk_free  |-> Round4(risk_free_rate),
                                              volatility |-> Round4(average_volatility),
                                              option     |-> RoundOption(option_valuation) ],
                          volatility    |-> volatility_df,
                          risk_free     |-> interpolated_df ]
                   /\ pc' = "done"
                   /\ error' = error
              ELSE /\ pc' = "failed"
                   /\ error' = [type |-> "OSError", line |-> 223, available |-> {}]
                   /\ report' = report
    /\ UNCHANGED << config, years_to_maturity, start_date, end_date, tick,
                    volatilities, fetched, volatility_df, average_volatility, ynext,
                    yields, known_yields, interpolated_df,
                    risk_free_rate, option_valuation, console, calls,
                    maturity_vars >>

Next ==
    \/ CalcMaturity
    \/ Window
    \/ FetchTicker
    \/ Aggregate
    \/ FetchYield
    \/ Interpolate
    \/ Lookup
    \/ Price
    \/ WriteReport

Spec == Init /\ [][Next]_vars

(***************************************************************************)
(* calculate_years_to_maturity on its own: the dates are drawn from        *)
(* ShiftConfigs, the function is applied, then all three dates are moved   *)
(* one day at a time and the function is applied again.                    *)
(***************************************************************************)
\* The largest number of days the three dates are moved, either way.
MaxShift == 45

\* (valuation_date, expiration_date, vesting_end_date)
ShiftConfigs ==
    { << <<2020, 1, 1>>,  <<2025, 1, 1>>,  <<2023, 1, 1>> >>,     \* (5 + 3) / 2 years
      << <<2020, 2, 20>>, <<2021, 3, 26>>, <<2022, 1, 14>> >>,    \* 1094 / 730, before a leap day
      << <<2020, 1, 1>>,  <<2023, 1, 1>>,  <<2021, 12, 30>> >>,   \* 1825 / 730: a tie
      << <<2020, 1, 1>>,  <<2025, 3, 8>>,  <<2017, 10, 25>> >> }  \* 1095 / 730, vesting in the past

\* The calendar day after dt.
NextDay(dt) ==
    IF dt[3] < DaysInMonth(dt[1], dt[2]) THEN <<dt[1], dt[2], dt[3] + 1>>
    ELSE IF dt[2] < 12 THEN <<dt[1], dt[2] + 1, 1>>
    ELSE <<dt[1] + 1, 1, 1>>

\* The calendar day before dt.
PrevDay(dt) ==
    IF dt[3] > 1 THEN <<dt[1], dt[2], dt[3] - 1>>
    ELSE IF dt[2] > 1 THEN <<dt[1], dt[2] - 1, DaysInMonth(dt[1], dt[2] - 1)>>
    ELSE <<dt[1] - 1, 12, 31>>

MoveDay(dt, k) == IF k = 1 THEN NextDay(dt) ELSE PrevDay(dt)

IdlePipeline ==
    /\ pc = "idle"
    /\ config = [ stock_price |-> 0, strike_price |-> 0,
                  dates |-> <<NoDate, NoDate, NoDate>>, grant_date |-> <<>>,
                  public_comps |-> <<>>, frequency |-> "daily" ]
    /\ years_to_maturity = 0
    /\ start_date = NoDate
    /\ end_date = NoDate
    /\ tick = 1
    /\ volatilities = <<>>
    /\ fetched = <<>>
    /\ volatility_df = <<>>
    /\ average_volatility = RatNaN
    /\ ynext = 1
    /\ yields = <<>>
    /\ known_yields = <<>>
    /\ interpolated_df = <<>>
    /\ risk_free_rate = RatNaN
    /\ option_valuation = NoOption
    /\ report = NoReport
    /\ console = <<>>
    /\ calls = <<>>
    /\ error = NoError

InitMaturity ==
    /\ IdlePipeline
    /\ mdates \in ShiftConfigs
    /\ mshift = 0
    /\ mresult = None
    /\ mbase = None

\* The function applied to the dates as drawn.
ApplyMaturity ==
    /\ mbase = None
    /\ mbase' = Num(calculate_years_to_maturity(mdates[1], mdates[2], mdates[3]))
    /\ mresult' = mbase'
    /\ UNCHANGED << mdates, mshift, pipeline_vars >>

\* All three dates moved by one day, and the function applied to them.
ShiftDates ==
    /\ mbase # None
    /\ \E k \in {-1, 1} :
         /\ Abs(mshift + k) <= MaxShift
         /\ mshift' = mshift + k
         /\ mdates' = << MoveDay(mdates[1], k), MoveDay(mdates[2], k), MoveDay(mdates[3], k) >>
    /\ mresult' = Num(calculate_years_to_maturity(mdates'[1], mdates'[2], mdates'[3]))
    /\ UNCHANGED << mbase, pipeline_vars >>

NextMaturity == ApplyMaturity \/ ShiftDates

SpecMaturity == InitMaturity /\ [][NextMaturity]_vars

(***************************************************************************)
(* Properties.                                                             *)
(***************************************************************************)
\* The steps after the volatility loop and its aggregation.
AfterAggregation == {"yields", "lookup", "price", "report", "done"}

\* The steps after the yield lookup has returned a rate.
AfterLookup == {"price", "report", "done"}

\* What calculate_volatility was given and returned for the i-th ticker.
OutcomeOf(i) ==
    IF fetched[i] = "raise" THEN [k |-> "raise", v |-> 0]
    ELSE calculate_volatility(PriceSeries[fetched[i]], config.frequency)

\* The tickers whose volatility computation raised.
FailedTickers == {i \in 1..Len(fetched) : OutcomeOf(i).k = "raise"}

\* The tickers whose volatility computation produced a figure.
ValuedTickers == {i \in 1..Len(fetched) : OutcomeOf(i).k = "num"}

RECURSIVE SumOver(_, _)
SumOver(f(_), S) ==
    IF S = {} THEN 0
    ELSE LET x == CHOOSE y \in S : TRUE IN f(x) + SumOver(f, S \ {x})

\* The treasury instruments whose fetch raised, and the maturities whose yield
\* was obtained.
FailedInstruments == {i \in 1..Len(yields) : yields[i].Yield.k = "none"}

ObtainedMaturities ==
    {treasury_tickers[i].maturity : i \in (1..Len(yields)) \ FailedInstruments}

MaxOf(S) == CHOOSE m \in S : \A n \in S : n <= m

\* C1: when every ticker of public_comps has failed, the run ends with an
\* error before the yield lookup returns: it never reaches black_scholes (an
\* average volatility of NaN) and never writes a report.
C1_AllTickersFailedStopsRun ==
    (Len(tickers) > 0 /\ tick > Len(tickers) /\ Cardinality(FailedTickers) = Len(tickers))
        => (pc \notin AfterLookup /\ ~report.written)

\* The rows the loop has to have recorded after tickers 1..n: one per ticker
\* whose computation did not raise, in the listed order.
RECURSIVE RowsOf(_)
RowsOf(n) ==
    IF n = 0 THEN <<>>
    ELSE IF OutcomeOf(n).k = "raise" THEN RowsOf(n - 1)
    ELSE Append(RowsOf(n - 1), [Ticker |-> tickers[n], vol |-> OutcomeOf(n)])

\* The rows that hold a volatility figure.
ValuedRows == {j \in 1..Len(volatilities) : IsNum(volatilities[j].vol)}

\* C2: a ticker that fails does not end the run: the run never fails inside
\* the volatility loop, the loop records exactly the tickers that did not
\* fail, and once it is over every ticker has been processed. When at least
\* one ticker produced a volatility figure, the average volatility is the
\* arithmetic mean of exactly those figures (in percent), divided by 100.
C2_AverageOverSuccessfulTickers ==
    /\ pc = "failed" => (fetched = <<>> \/ Len(fetched) = Len(tickers))
    /\ pc = "volatility" => volatilities = RowsOf(Len(fetched))
    /\ pc \in AfterAggregation =>
         /\ Len(fetched) = Len(tickers)
         /\ ValuedRows # {} =>
              /\ average_volatility.k = "num"
              /\ LET vol(j) == volatilities[j].vol.v
                 IN  average_volatility.num * Cardinality(ValuedRows) * 100 * 100
                         = SumOver(vol, ValuedRows) * average_volatility.den

\* C2 witness: of two tickers the second failed, and the average is the first
\* ticker's volatility alone.
C2_Witness ==
    /\ pc = "yields"
    /\ Len(tickers) = 2
    /\ FailedTickers = {2}
    /\ ValuedTickers = {1}
    /\ OutcomeOf(1).v > 0
    /\ average_volatility = Rat(OutcomeOf(1).v, 100 * 100)

\* C3: when the report is written, every failure the run recovered from is in
\* it: each failed ticker has a row in the volatility sheet, and each failed
\* treasury instrument has an absent value in the yield-curve sheet.
C3_RecoveredFailuresAreReported ==
    pc = "done" =>
        /\ \A i \in FailedTickers :
               \E j \in 1..Len(report.volatility) : report.volatility[j].Ticker = tickers[i]
        /\ \A i \in FailedInstruments :
               ~IsNum(report.risk_free[treasury_tickers[i].maturity])

\* C4: once the curve is built, the interpolation input holds no absent
\* yield, and every integer maturity from 1 to the largest maturity whose
\* yield was obtained has a value; when no yield was obtained every entry is
\* absent.
C4_CurveTotalUpToMaxKnown ==
    pc \in {"lookup", "price", "report", "done"} =>
        /\ \A m \in DOMAIN known_yields : IsNum(known_yields[m])
        /\ IF ObtainedMaturities # {}
           THEN \A m \in 1..MaxOf(ObtainedMaturities) : IsNum(interpolated_df[m])
           ELSE \A m \in DOMAIN interpolated_df : interpolated_df[m] = None

\* C5: a lookup for a maturity beyond the largest maturity whose yield was
\* obtained, or on a curve without any obtained yield, fails with the
\* maturity-not-found error (KeyError) that lists the available maturities;
\* no risk-free rate reaches the pricer.
C5_LookupBeyondKnownRangeFails ==
    (/\ Len(yields) = NumInstruments
     /\ pc \in AfterLookup \cup {"failed"}
     /\ (ObtainedMaturities = {} \/ years_to_maturity > MaxOf(ObtainedMaturities)))
        => /\ pc = "failed"
           /\ error.type = "KeyError"
           /\ error.line = 189
           /\ error.available = all_maturities

\* C6: the curve holds, at the maturity of every instrument whose yield was
\* fetched, exactly the fetched yield, whatever happened to the other
\* instruments, and a lookup at such a maturity returns it (as a fraction).
C6_KnownPointsCarriedThrough ==
    pc \in {"lookup", "price", "report", "done"} =>
        \A i \in (1..NumInstruments) \ FailedInstruments :
            /\ interpolated_df[treasury_tickers[i].maturity] = yields[i].Yield
            /\ (pc \in AfterLookup /\ years_to_maturity = treasury_tickers[i].maturity)
                   => risk_free_rate = Rat(yields[i].Yield.v, 100 * 100)

\* C6 witness: the 5-year yield was fetched, the 1-year and 10-year ones (its
\* neighbours) were not, and the lookup at 5 years returned the fetched yield.
C6_Witness ==
    /\ pc = "price"
    /\ years_to_maturity = 5
    /\ FailedInstruments = {1, 3}
    /\ risk_free_rate = Rat(RoundYield(YieldQuote("^FVX")), 100 * 100)

\* C7: no option value is computed or reported from a maturity <= 0 or a
\* volatility <= 0.
C7_NoValueFromNonPositiveInputs ==
    pc \in {"report", "done"} =>
        /\ years_to_maturity > 0
        /\ ~(average_volatility.k = "num" /\ average_volatility.num <= 0)

\* C8: calculate_years_to_maturity gives, for the three dates each moved by
\* the same number of days, the result it gives for the dates as drawn.
C8_MaturityShiftInvariant ==
    mbase # None => mresult = mbase

\* C8 witness: the dates of the second configuration moved forward across
\* 29 February 2020, with the result unchanged.
C8_Witness ==
    /\ mshift = 10
    /\ mdates = << <<2020, 3, 1>>, <<2021, 4, 5>>, <<2022, 1, 24>> >>
    /\ mresult = mbase
    /\ mbase = Num(1)

\* The number of observations calculate_volatility computes returns from.
ObservationCount(data, frequency) ==
    IF frequency = "daily" THEN Len(data)
    ELSE IF Len(data) = 0 THEN 0
    ELSE Cardinality({j \in DOMAIN Resample(data, frequency) :
                          IsNum(Resample(data, frequency)[j])})

\* C9: a ticker is recorded with a volatility only if its series was not
\* empty, had at least 2 resampled observations, and the frequency was one of
\* daily, weekly, monthly.
C9_ShortSeriesNotRecorded ==
    \A j \in 1..Len(volatilities) :
        \A i \in 1..Len(fetched) :
            tickers[i] = volatilities[j].Ticker =>
                /\ fetched[i] # "raise"
                /\ config.frequency \in Frequencies
                /\ ObservationCount(PriceSeries[fetched[i]], config.frequency) >= 2

\* The calls of a complete run, in order.
ExpectedCalls ==
    << <<"calculate_years_to_maturity", "">> >>
        \o [i \in 1..Len(tickers) |-> <<"calculate_volatility", tickers[i]>>]
        \o << <<"fetch_treasury_yield", "^IRX">>, <<"fetch_treasury_yield", "^FVX">>,
              <<"fetch_treasury_yield", "^TNX">>, <<"fetch_treasury_yield", "^TYX">> >>
        \o << <<"black_scholes", "">> >>

IsPrefix(a, b) == Len(a) <= Len(b) /\ a = SubSeq(b, 1, Len(a))

\* C10: the calls a run has made are an initial part of: the maturity
\* calculation, one volatility computation per ticker in the listed order,
\* one yield fetch per treasury instrument in the listed order, the pricer.
\* So no step runs twice, no fetch is repeated after a failure, and the
\* pricer runs last, after its three inputs have been produced.
C10_FixedOrderNoRetry ==
    /\ IsPrefix(calls, ExpectedCalls)
    /\ pc \in {"report", "done"} =>
         /\ calls = ExpectedCalls
         /\ Len(fetched) = Len(tickers)
         /\ Len(yields) = NumInstruments
         /\ interpolated_df # <<>>
         /\ volatility_df # <<>>

\* C10 witness: a complete run in which a ticker and a treasury instrument
\* failed: each was fetched once, and the pricer ran last.
C10_Witness ==
    /\ pc = "done"
    /\ Len(tickers) = 2
    /\ FailedTickers = {1}
    /\ FailedInstruments = {2}
    /\ calls = ExpectedCalls

====
